---- MODULE Spec2Model ----
(***************************************************************************)
(* Model of tz/osemosys/model/constraints/commodity_balance.py:            *)
(* add_commodity_balance_constraints(ds, m, lex).                          *)
(*                                                                         *)
(* A linear expression is a function from coordinates to coefficient       *)
(* vectors over the decision variables; the decision variables are the     *)
(* Production cells <<region, timeslice, fuel, year>>.  Numeric values are *)
(* fixed-point, in units of 1e-4.                                          *)
(***************************************************************************)
EXTENDS Integers, Sequences, FiniteSets, TLC

VARIABLES
    ds,         \* the dataset: the values of its FUEL coordinate
    lex,        \* the expression registry: key -> linear expression
    m,          \* the model instances: id -> (constraint name -> constraint)
    solution,   \* a value for every Production cell, where constraints are evaluated
    calls,      \* number of invocations of the builder so far
    arg,        \* the model instance passed to the last invocation (0: none yet)
    ret,        \* the value the last invocation returned (0: nothing returned)
    err,        \* the exception the last invocation raised, or "none"
    registered, \* the names the last invocation registered, in order
    pre         \* ds, lex and m as they were when the last invocation started

vars == <<ds, lex, m, solution, calls, arg, ret, err, registered, pre>>

----------------------------------------------------------------------------
\* Bounds of the model

MaxCalls == 2
MaxNonZero == 2

REGION == {"R1", "R2"}
TIMESLICE == {"S1", "S2"}
YEAR == {2020}
FuelLabels == {"gen-ELC", "final-ELC", "primary-electricity", "secondary-electricity"}
ModelIds == {1, 2}
NonZeroVals == {5, 11}
Cells == TIMESLICE \X YEAR

\* 1e-3 in units of 1e-4
TOLERANCE == 10

GenName == "CommodityBalance_GenELC_Equals_FinalELC"
UpperName == "CommodityBalance_PrimarySecondaryElectricity_upper"
LowerName == "CommodityBalance_PrimarySecondaryElectricity_lower"
OtherName == "EnergyBalance_Other"
OwnNames == {GenName, UpperName, LowerName}

----------------------------------------------------------------------------
\* Linear expressions

\* the decision variables behind Production for a dataset with FUEL values d
Variables(d) == REGION \X TIMESLICE \X d \X YEAR

ZeroVec(V) == [v \in V |-> 0]
UnitVec(V, x) == [v \in V |-> IF v = x THEN 1 ELSE 0]
AddVec(a, b) == [v \in DOMAIN a |-> a[v] + b[v]]
SubVec(a, b) == [v \in DOMAIN a |-> a[v] - b[v]]

\* lex["Production"], dimensions [REGION, TIMESLICE, FUEL, YEAR]
ProductionExpr(d) == [x \in Variables(d) |-> UnitVec(Variables(d), x)]
\* some other entry of the registry
DemandExpr(d) == [x \in Variables(d) |-> ZeroVec(Variables(d))]

\* FUEL coordinate values of an expression with dimensions [REGION, TIMESLICE, FUEL, YEAR]
FuelCoords(e) == {x[3] : x \in DOMAIN e}

\* production.sel(FUEL=f): dimensions [REGION, TIMESLICE, YEAR]
SelFuel(e, f) ==
    [c \in {<<x[1], x[2], x[4]>> : x \in {z \in DOMAIN e : z[3] = f}}
        |-> e[<<c[1], c[2], f, c[3]>>]]

RECURSIVE SumVecs(_, _, _)
SumVecs(e, idx, zero) ==
    IF idx = {} THEN zero
    ELSE LET i == CHOOSE j \in idx : TRUE
         IN AddVec(e[i], SumVecs(e, idx \ {i}, zero))

\* only the first region is kept
SumRegion_FirstOnly(e, zero) ==
    [c \in {<<x[2], x[3]>> : x \in DOMAIN e}
        |-> e[CHOOSE x \in DOMAIN e : x[2] = c[1] /\ x[3] = c[2]]]

\* e.sum("REGION") for e of dimensions [REGION, TIMESLICE, YEAR]
SumRegion(e, zero) ==
    [c \in {<<x[2], x[3]>> : x \in DOMAIN e}
        |-> SumVecs(e, {x \in DOMAIN e : x[2] = c[1] /\ x[3] = c[2]}, zero)]

\* the operands the other way round
Difference_Swapped(a, b) == [c \in DOMAIN a |-> SubVec(b[c], a[c])]

\* primary_elc_production - secondary_elc_production, cell by cell
Difference(a, b) == [c \in DOMAIN a |-> SubVec(a[c], b[c])]

\* a == b: everything on the left-hand side, right-hand side 0
Equals(a, b) == [lhs |-> [c \in DOMAIN a |-> SubVec(a[c], b[c])], sign |-> "=", rhs |-> 0]
\* e <= c, e >= c
LessEq(e, c) == [lhs |-> e, sign |-> "<=", rhs |-> c]
GreaterEq(e, c) == [lhs |-> e, sign |-> ">=", rhs |-> c]

----------------------------------------------------------------------------
\* The registry lookup and the model's add_constraints

\* lex.pop(key): the entry leaves the registry
Lookup_Pop(reg, key) ==
    IF key \in DOMAIN reg
    THEN [ok |-> TRUE, value |-> reg[key],
          reg |-> [k \in DOMAIN reg \ {key} |-> reg[k]]]
    ELSE [ok |-> FALSE, value |-> <<>>, reg |-> reg]

\* lex.get(key, {}): no error when the key is absent
Lookup_Default(reg, key) ==
    [ok |-> TRUE, value |-> IF key \in DOMAIN reg THEN reg[key] ELSE <<>>, reg |-> reg]

\* lex[key]: the entry, or a KeyError when the key is absent; the registry
\* is the same afterwards
Lookup(reg, key) ==
    IF key \in DOMAIN reg
    THEN [ok |-> TRUE, value |-> reg[key], reg |-> reg]
    ELSE [ok |-> FALSE, value |-> <<>>, reg |-> reg]

\* the new constraint replaces the collection
add_constraints_Replace(s, con, name) ==
    [s EXCEPT !.cons = (name :> con), !.registered = Append(s.registered, name)]

\* no check of the name: an entry of that name is overwritten
add_constraints_Overwrite(s, con, name) ==
    [s EXCEPT !.cons = (name :> con) @@ s.cons,
              !.registered = Append(s.registered, name)]

\* m.add_constraints(con, name=name) on the running state s of a call:
\* a name already in the model raises ValueError, otherwise the constraint
\* is added under that name
add_constraints(s, con, name) ==
    IF name \in DOMAIN s.cons
    THEN [s EXCEPT !.err = "ValueError"]
    ELSE [s EXCEPT !.cons = (name :> con) @@ s.cons,
                   !.registered = Append(s.registered, name)]

\* "or" for "and"
GenPairPresent_Or(d) == "gen-ELC" \in d \/ "final-ELC" \in d

\* "gen-ELC" in ds["FUEL"].values and "final-ELC" in ds["FUEL"].values
GenPairPresent(d) == "gen-ELC" \in d /\ "final-ELC" \in d

\* "primary-electricity" in ds["FUEL"].values and "secondary-electricity" in ds["FUEL"].values
PrimaryPairPresent(d) == "primary-electricity" \in d /\ "secondary-electricity" \in d

\* the block under the first if
ExactPass(s, production) ==
    IF ~({"gen-ELC", "final-ELC"} \subseteq FuelCoords(production))
    THEN [s EXCEPT !.err = "KeyError"]
    ELSE LET zero == ZeroVec(DOMAIN production)
             gen_elc_production == SelFuel(production, "gen-ELC")
             final_elc_production == SelFuel(production, "final-ELC")
             gen_elc_total == SumRegion(gen_elc_production, zero)
             final_elc_total == SumRegion(final_elc_production, zero)
             con == Equals(gen_elc_total, final_elc_total)
         IN add_constraints(s, con, GenName)

\* only the upper bound is registered
RegisterBand_UpperOnly(s, difference) ==
    add_constraints(s, LessEq(difference, TOLERANCE), UpperName)

\* one equality in place of the two inequalities
RegisterBand_Equality(s, difference) ==
    add_constraints(s, [lhs |-> difference, sign |-> "=", rhs |-> 0],
                    "CommodityBalance_PrimarySecondaryElectricity")

\* the two add_constraints calls that end the block under the second if
RegisterBand(s, difference) ==
    LET s1 == add_constraints(s, LessEq(difference, TOLERANCE), UpperName)
    IN IF s1.err # "none" THEN s1
       ELSE add_constraints(s1, GreaterEq(difference, 0 - TOLERANCE), LowerName)

\* the block under the second if
TolerantPass(s, production) ==
    IF ~({"primary-electricity", "secondary-electricity"} \subseteq FuelCoords(production))
    THEN [s EXCEPT !.err = "KeyError"]
    ELSE LET zero == ZeroVec(DOMAIN production)
             primary_elc_production ==
                 SumRegion(SelFuel(production, "primary-electricity"), zero)
             secondary_elc_production ==
                 SumRegion(SelFuel(production, "secondary-electricity"), zero)
             difference == Difference(primary_elc_production, secondary_elc_production)
         IN RegisterBand(s, difference)

\* another instance is handed back
ReturnValue_Other(mid) == CHOOSE i \in ModelIds : i # mid

\* the value handed back by "return m"
ReturnValue(mid) == mid

\* the whole function on dataset d, the constraints cons of the model and
\* the registry reg; the result is the final running state
Build(d, cons, reg) ==
    LET production == Lookup(reg, "Production")
        s0 == [cons |-> cons, lex |-> production.reg, err |-> "none", registered |-> <<>>]
    IN IF ~production.ok THEN [s0 EXCEPT !.err = "KeyError"]
       ELSE LET s1 == IF GenPairPresent(d) THEN ExactPass(s0, production.value) ELSE s0
            IN IF s1.err # "none" THEN s1
               ELSE IF PrimaryPairPresent(d) THEN TolerantPass(s1, production.value)
               ELSE s1

----------------------------------------------------------------------------
\* The state machine

\* a constraint another builder registered before this one runs
OtherConstraint(d) ==
    [lhs |-> [c \in Cells |-> ZeroVec(Variables(d))], sign |-> "<=", rhs |-> 0]

\* the registries: "Production" may be missing, other keys may be there
Registries(d) ==
    { [k \in K |-> IF k = "Production" THEN ProductionExpr(d) ELSE DemandExpr(d)] :
        K \in SUBSET {"Production", "Demand"} }

\* the constraint collections a model can hold before the builder runs
PriorConstraints(d) == { <<>>, OtherName :> OtherConstraint(d) }

\* the values of at most MaxNonZero Production cells differ from 0
SparseSolutions(V) ==
    UNION { { [v \in V |-> IF v \in S THEN f[v] ELSE 0] : f \in [S -> NonZeroVals] } :
            S \in {T \in SUBSET V : Cardinality(T) <= MaxNonZero} }

InitCall ==
    /\ calls = 0
    /\ arg = 0
    /\ ret = 0
    /\ err = "none"
    /\ registered = <<>>
    /\ pre = [ds |-> ds, lex |-> lex, m |-> m]

Init ==
    /\ ds \in SUBSET FuelLabels
    /\ lex \in Registries(ds)
    /\ m \in [ModelIds -> PriorConstraints(ds)]
    /\ solution = ZeroVec(Variables(ds))
    /\ InitCall

\* the inputs of the evaluation of the registered constraints
InitEval ==
    /\ ds \in SUBSET FuelLabels
    /\ lex \in {r \in Registries(ds) : DOMAIN r = {"Production", "Demand"}}
    /\ m = [i \in ModelIds |-> <<>>]
    /\ solution \in SparseSolutions(Variables(ds))
    /\ InitCall

\* one invocation add_commodity_balance_constraints(ds, m[mid], lex)
add_commodity_balance_constraints(mid) ==
    /\ calls < MaxCalls
    /\ LET out == Build(ds, m[mid], lex)
       IN /\ m' = [m EXCEPT ![mid] = out.cons]
          /\ lex' = out.lex
          /\ err' = out.err
          /\ registered' = out.registered
          /\ ret' = IF out.err = "none" THEN ReturnValue(mid) ELSE 0
    /\ arg' = mid
    /\ calls' = calls + 1
    /\ pre' = [ds |-> ds, lex |-> lex, m |-> m]
    /\ UNCHANGED <<ds, solution>>

Next == \E mid \in ModelIds : add_commodity_balance_constraints(mid)

\* the builder run on the model under assembly
NextEval == add_commodity_balance_constraints(1)

Spec == Init /\ [][Next]_vars
SpecEval == InitEval /\ [][NextEval]_vars

----------------------------------------------------------------------------
\* Evaluation of a constraint at a solution

RECURSIVE Dot(_, _, _)
Dot(vec, sol, V) ==
    IF V = {} THEN 0
    ELSE LET v == CHOOSE w \in V : TRUE
         IN vec[v] * sol[v] + Dot(vec, sol, V \ {v})

\* the constraint's row for one (TIMESLICE, YEAR) cell holds at sol
Satisfied(con, sol, cell) ==
    LET value == Dot(con.lhs[cell], sol, DOMAIN sol)
    IN CASE con.sign = "=" -> value = con.rhs
         [] con.sign = "<=" -> value <= con.rhs
         [] con.sign = ">=" -> value >= con.rhs

----------------------------------------------------------------------------
\* Vocabulary of the properties

RECURSIVE RegionTotal(_, _, _, _)
\* the sum over the regions R of the Production values of fuel f in a cell
RegionTotal(sol, f, cell, R) ==
    IF R = {} THEN 0
    ELSE LET r == CHOOSE q \in R : TRUE
         IN sol[<<r, cell[1], f, cell[2]>>] + RegionTotal(sol, f, cell, R \ {r})

Called == calls > 0
Succeeded == Called /\ err = "none"
NamesBefore == DOMAIN pre.m[arg]
NamesAfter == DOMAIN m[arg]
Added(n) == n \in NamesAfter /\ n \notin NamesBefore
NumAdded == Cardinality(NamesAfter \ NamesBefore)
HasGenPair == {"gen-ELC", "final-ELC"} \subseteq pre.ds
HasPrimaryPair == {"primary-electricity", "secondary-electricity"} \subseteq pre.ds
\* the call met the builder's input contract: "Production" is in the
\* registry and the builder has not yet run on this model
ContractMet ==
    /\ "Production" \in DOMAIN pre.lex
    /\ NamesBefore \cap (OwnNames) = {}

----------------------------------------------------------------------------
\* Properties

\* C1: a call never adds CommodityBalance_GenELC_Equals_FinalELC unless both
\* "gen-ELC" and "final-ELC" are FUEL values; a call that meets the input
\* contract adds it exactly when both are, and when either is missing it
\* finishes without error.
Thm_C1_GenGating ==
    Called =>
        /\ Added(GenName) => HasGenPair
        /\ ContractMet =>
            /\ Added(GenName) <=> HasGenPair
            /\ ~HasGenPair => err = "none" /\ ret = arg

Wit_C1_GenGating ==
    /\ Called /\ ContractMet
    /\ "gen-ELC" \in ds /\ "final-ELC" \notin ds /\ HasPrimaryPair
    /\ err = "none"
    /\ GenName \notin NamesAfter /\ UpperName \in NamesAfter

\* C2: the _upper and _lower constraints are added together or not at all;
\* they are never added unless both "primary-electricity" and
\* "secondary-electricity" are FUEL values, and a call that meets the input
\* contract adds both exactly when both labels are there.
Thm_C2_BandGating ==
    Called =>
        /\ Added(UpperName) <=> Added(LowerName)
        /\ Added(UpperName) => HasPrimaryPair
        /\ ContractMet => (Added(UpperName) /\ Added(LowerName) <=> HasPrimaryPair)

Wit_C2_BandGating ==
    /\ Called /\ ContractMet /\ HasPrimaryPair /\ ~HasGenPair
    /\ Added(UpperName) /\ Added(LowerName)

\* C3: with both "gen-ELC" and "final-ELC" present a successful first call
\* registers the equality, and in every (TIMESLICE, YEAR) cell the registered
\* constraint holds at a solution exactly when the region sums of the two
\* fuels are equal there.
Thm_C3_Equality ==
    /\ (Succeeded /\ HasGenPair) => GenName \in NamesAfter
    /\ \A i \in ModelIds :
        GenName \in DOMAIN m[i] =>
            /\ DOMAIN m[i][GenName].lhs = Cells
            /\ \A cell \in Cells :
                Satisfied(m[i][GenName], solution, cell)
                    <=> RegionTotal(solution, "gen-ELC", cell, REGION)
                        = RegionTotal(solution, "final-ELC", cell, REGION)

Wit_C3_Equality ==
    /\ Succeeded /\ Added(GenName)
    /\ \E cell \in Cells :
        /\ RegionTotal(solution, "gen-ELC", cell, REGION) = 5
        /\ RegionTotal(solution, "final-ELC", cell, REGION) = 5
        /\ \E r \in REGION :
            solution[<<r, cell[1], "gen-ELC", cell[2]>>]
                # solution[<<r, cell[1], "final-ELC", cell[2]>>]
        /\ Satisfied(m[arg][GenName], solution, cell)

\* C4: with both "primary-electricity" and "secondary-electricity" present a
\* successful first call registers the two bounds, and in every cell, with d
\* the region sum of primary minus that of secondary (units of 1e-4), _upper
\* holds exactly when d <= 10 and _lower exactly when d >= -10: both hold
\* exactly in the band, d > 10 breaks only _upper, d < -10 only _lower.
Thm_C4_Band ==
    /\ (Succeeded /\ HasPrimaryPair) => {UpperName, LowerName} \subseteq NamesAfter
    /\ \A i \in ModelIds :
        {UpperName, LowerName} \subseteq DOMAIN m[i] =>
            \A cell \in Cells :
                LET d == RegionTotal(solution, "primary-electricity", cell, REGION)
                         - RegionTotal(solution, "secondary-electricity", cell, REGION)
                    up == Satisfied(m[i][UpperName], solution, cell)
                    lo == Satisfied(m[i][LowerName], solution, cell)
                IN /\ (up /\ lo) <=> (0 - 10 <= d /\ d <= 10)
                   /\ d > 10 => (~up /\ lo)
                   /\ d < 0 - 10 => (up /\ ~lo)

Wit_C4_Band ==
    /\ Succeeded /\ Added(UpperName) /\ Added(LowerName)
    /\ \E cell \in Cells :
        /\ RegionTotal(solution, "primary-electricity", cell, REGION)
           - RegionTotal(solution, "secondary-electricity", cell, REGION) = 11
        /\ ~Satisfied(m[arg][UpperName], solution, cell)
        /\ Satisfied(m[arg][LowerName], solution, cell)

\* C5 as stated: a successful call registers 0, 1 or 3 constraints.
Orig_C5_Count == Succeeded => NumAdded \in {0, 1, 3}

\* C5 amended: a successful call registers 0, 1, 2 or 3 constraints: one for
\* the gen-ELC/final-ELC pair when present plus two for the
\* primary/secondary pair when present.
Thm_C5_Count ==
    Succeeded =>
        /\ NumAdded = (IF HasGenPair THEN 1 ELSE 0) + (IF HasPrimaryPair THEN 2 ELSE 0)
        /\ NumAdded = Len(registered)

Wit_C5_Count == Succeeded /\ NumAdded = 2 /\ HasPrimaryPair /\ ~HasGenPair

\* C6 as stated: the names before a call are a strict subset of the names after.
Orig_C6_StrictSubset ==
    Called => (NamesBefore \subseteq NamesAfter /\ NamesBefore # NamesAfter)

\* C6 amended: the names before a call are a subset of the names after; the
\* subset is strict exactly when the call registered a constraint, which for a
\* call that does not fail is exactly when the dataset holds a complete pair.
Thm_C6_Subset ==
    Called =>
        /\ NamesBefore \subseteq NamesAfter
        /\ NamesBefore # NamesAfter <=> registered # <<>>
        /\ err = "none" => (NamesBefore # NamesAfter <=> (HasGenPair \/ HasPrimaryPair))

Wit_C6_Subset ==
    /\ Succeeded /\ ~HasGenPair /\ ~HasPrimaryPair
    /\ NamesBefore = NamesAfter /\ OtherName \in NamesAfter

\* C7: without "Production" in the registry the call fails with the lookup
\* error, returns nothing and leaves every model as it was, whatever the
\* dataset.
Thm_C7_MissingProduction ==
    (Called /\ "Production" \notin DOMAIN pre.lex) =>
        /\ err = "KeyError"
        /\ ret = 0
        /\ registered = <<>>
        /\ m = pre.m

Wit_C7_MissingProduction ==
    /\ Called /\ "Production" \notin DOMAIN pre.lex
    /\ ~HasGenPair /\ ~HasPrimaryPair
    /\ err = "KeyError"

\* C8: a call leaves the dataset and the registry as they were, keeps every
\* constraint that was in a model under its name with its content, and adds
\* only to the model it was given.
Thm_C8_Frame ==
    Called =>
        /\ ds = pre.ds
        /\ lex = pre.lex
        /\ \A i \in ModelIds :
            /\ \A n \in DOMAIN pre.m[i] : n \in DOMAIN m[i] /\ m[i][n] = pre.m[i][n]
            /\ i # arg => m[i] = pre.m[i]

Wit_C8_Frame ==
    /\ Called /\ err = "none" /\ Len(registered) = 3
    /\ OtherName \in NamesBefore
    /\ "Demand" \in DOMAIN lex

Thm_C10_ReturnsModel == Succeeded => ret = arg

Wit_C10_ReturnsModel ==
    /\ Succeeded /\ arg = 2 /\ ret = 2
    /\ HasGenPair /\ ~HasPrimaryPair /\ Added(GenName)

====
